---- MODULE Spec2Model ----
(***************************************************************************)
(* djblets.log.middleware.LoggingMiddleware as a state machine.            *)
(*                                                                         *)
(* One middleware instance and the two module globals (_logging_setup,     *)
(* _profile_log) are shared by the request-handling threads of a process.  *)
(* Each worker runs the hooks of one request at a time: process_request,   *)
(* process_view (unless a middleware ahead answers the request before view *)
(* dispatch), process_response.  A hook is cut into steps at the           *)
(* statements that read or write state shared between threads, so the      *)
(* interleavings the interpreter allows are behaviours of the model.       *)
(* Statements that touch only locals or the immutable settings are part of *)
(* the step that follows them.                                             *)
(***************************************************************************)
EXTENDS Integers, Sequences, FiniteSets, TLC

\* Number of request-handling threads sharing the middleware instance.
NumWorkers == 2
\* Total number of requests the process serves in a behaviour.
MaxRequests == 2

Workers == 1..NumWorkers

\* Values of a string setting: absent (getattr's default None), empty, or a
\* usable value.
StringSettings == {"None", "", "site"}

\* Python truthiness of a string-or-None setting value.
Truthy(v) == v \notin {"None", ""}

\* callback_args / callback_kwargs the URL resolver found for the view.
CallbackInputs ==
  { [args |-> << >>, kwargs |-> {}],
    [args |-> <<"pk">>, kwargs |-> {"format"}] }

NoCall == [args |-> << >>, kwargs |-> {}]

\* Identities of profilers and of StringIO buffers: 0 is none (self.profiler
\* never set; sys.stdout the real stream), w in Workers is the object made
\* for the request worker w is handling, Stale is any object made for a
\* request that is over.
Stale == -1

VARIABLES
  settings,       \* django.conf.settings, fixed for the process
  _logging_setup, \* module global, line 9
  _profile_log,   \* module global, line 10: "None" or the "profile" logger
  rootFile,       \* file handlers on the root logger (= opens of NAME.log)
  rootConsole,    \* console StreamHandlers on the root logger
  infoRecords,    \* "Logging to ..." records emitted (runs of the init body)
  profHandlers,   \* FileHandlers attached to the "profile" logger
  profOpens,      \* FileHandlers constructed on NAME.prof (file opens)
  profiler,       \* self.profiler of the middleware instance
  sys_stdout,     \* sys.stdout
  nextReq,        \* number of the next request to arrive
  wk              \* per worker: position and locals of the request it handles

vars == << settings, _logging_setup, _profile_log, rootFile, rootConsole,
           infoRecords, profHandlers, profOpens, profiler, sys_stdout,
           nextReq, wk >>

globals == << _logging_setup, _profile_log, rootFile, rootConsole,
              infoRecords, profHandlers, profOpens, profiler, sys_stdout >>

\* A worker between requests.
IdleWorker ==
  [ pc         |-> "idle",
    profiling  |-> FALSE,    \* 'profiling' in request.GET
    viewed     |-> FALSE,    \* process_view ran for this request
    cb         |-> NoCall,   \* callback_args, callback_kwargs
    created    |-> 0,        \* profiler process_view created for this request
    viewCalls  |-> 0,        \* times process_view invoked the view
    calledWith |-> NoCall,   \* what process_view invoked the view with
    pvReturn   |-> "None",   \* what process_view returned
    response   |-> "None",   \* the response handed to process_response
    returned   |-> "None",   \* what process_response returned
    old_stdout |-> 0,        \* local old_stdout
    printed    |-> "None",   \* the profiler print_stats has just run on:
                             \*   "own" (the one created for this request)
                             \*   or "other"
    header     |-> 0,        \* header lines written to NAME.prof for it
    stats      |-> 0,        \* statistics lines written to NAME.prof for it
    raised     |-> "None" ]  \* exception a hook ended with

Init ==
  /\ settings \in [ LOGGING_ENABLED         : BOOLEAN,
                    LOGGING_DIRECTORY       : StringSettings,
                    LOGGING_NAME            : StringSettings,
                    LOGGING_ALLOW_PROFILING : BOOLEAN,
                    DEBUG                   : BOOLEAN ]
  /\ _logging_setup = FALSE
  /\ _profile_log = "None"
  /\ rootFile = 0
  /\ rootConsole = 0
  /\ infoRecords = 0
  /\ profHandlers = 0
  /\ profOpens = 0
  /\ profiler = 0
  /\ sys_stdout = 0
  /\ nextReq = 1
  /\ wk = [w \in Workers |-> IdleWorker]

\* Nothing reads the locals of a finished request, so the step that drops
\* them (Finish) commutes with every step of the other workers: it is taken
\* before any other step.
Settled == \A v \in Workers : wk[v].pc \notin {"done", "raised"}

\* Worker w is at position p and may take its next step.
At(w, p) == wk[w].pc = p /\ Settled

\* Move worker w to position p.
Goto(w, p) == wk' = [wk EXCEPT ![w].pc = p]

\* ProfilingActive without the settings test: the query parameter alone
\* turns profiling on.
ProfilingActive_NoAllowTest(w) == wk[w].profiling

\* The test of lines 90-91 and of lines 102-103.
ProfilingActive(w) ==
  wk[w].profiling /\ settings.LOGGING_ALLOW_PROFILING

\* LoggingConfigured without the test of LOGGING_NAME.
LoggingConfigured_NoNameTest ==
  /\ settings.LOGGING_ENABLED
  /\ Truthy(settings.LOGGING_DIRECTORY)

\* The test of line 136, negated: the configuration allows log setup.
LoggingConfigured ==
  /\ settings.LOGGING_ENABLED
  /\ Truthy(settings.LOGGING_DIRECTORY)
  /\ Truthy(settings.LOGGING_NAME)

----------------------------------------------------------------------------
\* The server hands a new request to the first free worker (the threads are
\* interchangeable) and the framework calls process_request, which calls
\* ensure_loggers.
Free(w) == wk[w].pc = "idle"

StartRequest(w) ==
  /\ Free(w)
  /\ Settled
  /\ \A v \in Workers : v < w => ~Free(v)
  /\ nextReq <= MaxRequests
  /\ \E p \in BOOLEAN :
       wk' = [wk EXCEPT ![w] = [IdleWorker EXCEPT
                !.pc = "el_check", !.profiling = p]]
  /\ nextReq' = nextReq + 1
  /\ UNCHANGED << settings, globals >>

\* ensure_loggers, lines 129-137: the flag test and the configuration test.
EnsureLoggersCheck(w) ==
  /\ At(w, "el_check")
  /\ Goto(w, IF _logging_setup \/ ~LoggingConfigured THEN "dispatch"
                                                      ELSE "el_basic")
  /\ UNCHANGED << settings, globals, nextReq >>

\* logging.basicConfig, lines 139-152: adds the file handler, unless the
\* root logger already has handlers.
BasicConfig(w) ==
  /\ At(w, "el_basic")
  /\ rootFile' = IF rootFile + rootConsole = 0 THEN rootFile + 1 ELSE rootFile
  /\ Goto(w, "el_console")
  /\ UNCHANGED << settings, _logging_setup, _profile_log, rootConsole,
                  infoRecords, profHandlers, profOpens, profiler,
                  sys_stdout, nextReq >>

\* Lines 154-159: the console handler in DEBUG mode.
ConsoleHandler(w) ==
  /\ At(w, "el_console")
  /\ rootConsole' = IF settings.DEBUG THEN rootConsole + 1 ELSE rootConsole
  /\ Goto(w, "el_info")
  /\ UNCHANGED << settings, _logging_setup, _profile_log, rootFile,
                  infoRecords, profHandlers, profOpens, profiler,
                  sys_stdout, nextReq >>

\* Lines 161-162: the announcing record.
AnnounceInfo(w) ==
  /\ At(w, "el_info")
  /\ infoRecords' = infoRecords + 1
  /\ Goto(w, "el_set")
  /\ UNCHANGED << settings, _logging_setup, _profile_log, rootFile,
                  rootConsole, profHandlers, profOpens, profiler,
                  sys_stdout, nextReq >>

\* Line 164.
SetLoggingSetup(w) ==
  /\ At(w, "el_set")
  /\ _logging_setup' = TRUE
  /\ Goto(w, "dispatch")
  /\ UNCHANGED << settings, _profile_log, rootFile, rootConsole, infoRecords,
                  profHandlers, profOpens, profiler, sys_stdout, nextReq >>

----------------------------------------------------------------------------
\* The view: it answers with a page when it is called with the request
\* first.
View(call) ==
  IF Len(call.args) = 0 \/ Head(call.args) # "request" THEN "TypeError"
  ELSE "page"

\* How the framework itself calls the view.
DirectCall(cb) == [args |-> <<"request">> \o cb.args, kwargs |-> cb.kwargs]

\* RunCallArgs without the request: args = callback_args.
RunCallArgs_NoRequest(cb) == [args |-> cb.args, kwargs |-> cb.kwargs]

\* The arguments process_view passes to the view, line 94 and the call of
\* line 95: (request,) + callback_args, **callback_kwargs.
RunCallArgs(cb) == [args |-> <<"request">> \o cb.args, kwargs |-> cb.kwargs]

\* What process_view returns when profiling is active, line 95: the answer
\* of the view run under the profiler.
RunCall(cb) == View(RunCallArgs(cb))

\* A middleware ahead of the view answers the request itself: process_view is
\* never called, process_response still is.
ShortCircuit(w) ==
  /\ At(w, "dispatch")
  /\ wk' = [wk EXCEPT ![w].pc = "pr_check", ![w].response = "early_page"]
  /\ UNCHANGED << settings, globals, nextReq >>

\* process_view, lines 90-95.  With profiling active a new profiler is
\* stored on the middleware instance and its runcall runs the view; the
\* hook's answer then is the response.  Otherwise the hook returns None and
\* the framework calls the view itself.
ProcessView(w) ==
  /\ At(w, "dispatch")
  /\ \E c \in CallbackInputs :
       IF ProfilingActive(w)
         THEN /\ profiler' = w
              /\ wk' = [wk EXCEPT ![w].pc = "pr_check",
                                  ![w].viewed = TRUE,
                                  ![w].cb = c,
                                  ![w].created = w,
                                  ![w].viewCalls = @ + 1,
                                  ![w].calledWith = RunCallArgs(c),
                                  ![w].pvReturn = RunCall(c),
                                  ![w].response = RunCall(c)]
         ELSE /\ profiler' = profiler
              /\ wk' = [wk EXCEPT ![w].pc = "pr_check",
                                  ![w].viewed = TRUE,
                                  ![w].cb = c,
                                  ![w].pvReturn = "None",
                                  ![w].response = View(DirectCall(c))]
  /\ UNCHANGED << settings, _logging_setup, _profile_log, rootFile,
                  rootConsole, infoRecords, profHandlers, profOpens,
                  sys_stdout, nextReq >>

----------------------------------------------------------------------------
\* ensure_profile_logger, the test of lines 172-177.
NeedProfileLogger ==
  /\ LoggingConfigured
  /\ _profile_log = "None"
  /\ settings.LOGGING_ALLOW_PROFILING

\* process_response, lines 102-105 and 172-177: without profiling the
\* response is returned (line 121); with it, ensure_profile_logger tests
\* whether the logger is to be created.  The arguments of process_view are
\* out of scope here.
ProcessResponseCheck(w) ==
  /\ At(w, "pr_check")
  /\ LET a == [wk[w] EXCEPT !.cb = NoCall, !.calledWith = NoCall]
     IN wk' = [wk EXCEPT ![w] =
                 IF ~ProfilingActive(w)
                   THEN [a EXCEPT !.pc = "done", !.returned = a.response]
                   ELSE [a EXCEPT !.pc = IF NeedProfileLogger
                                           THEN "epl_handler" ELSE "pr_swap"]]
  /\ UNCHANGED << settings, globals, nextReq >>

\* Lines 178-181: the FileHandler opens NAME.prof.
CreateProfileHandler(w) ==
  /\ At(w, "epl_handler")
  /\ profOpens' = profOpens + 1
  /\ Goto(w, "epl_set")
  /\ UNCHANGED << settings, _logging_setup, _profile_log, rootFile,
                  rootConsole, infoRecords, profHandlers, profiler,
                  sys_stdout, nextReq >>

\* Line 183.
SetProfileLog(w) ==
  /\ At(w, "epl_set")
  /\ _profile_log' = "profile"
  /\ Goto(w, "epl_add")
  /\ UNCHANGED << settings, _logging_setup, rootFile, rootConsole,
                  infoRecords, profHandlers, profOpens, profiler,
                  sys_stdout, nextReq >>

\* Line 184.
AddProfileHandler(w) ==
  /\ At(w, "epl_add")
  /\ profHandlers' = profHandlers + 1
  /\ Goto(w, "pr_swap")
  /\ UNCHANGED << settings, _logging_setup, _profile_log, rootFile,
                  rootConsole, infoRecords, profOpens, profiler, sys_stdout,
                  nextReq >>

\* Lines 108-112: self.profiler.create_stats() (the attribute does not exist
\* until some process_view has stored a profiler), then out = StringIO();
\* old_stdout, sys.stdout = sys.stdout, out.
SwapStdout(w) ==
  /\ At(w, "pr_swap")
  /\ IF profiler = 0
       THEN /\ wk' = [wk EXCEPT ![w].pc = "raised",
                                ![w].raised = "AttributeError"]
            /\ sys_stdout' = sys_stdout
       ELSE /\ wk' = [wk EXCEPT ![w].pc = "pr_print",
                                ![w].old_stdout = sys_stdout]
            /\ sys_stdout' = w
  /\ UNCHANGED << settings, _logging_setup, _profile_log, rootFile,
                  rootConsole, infoRecords, profHandlers, profOpens,
                  profiler, nextReq >>

\* Line 113: self.profiler.print_stats(1) prints the statistics of the
\* profiler the instance holds now, to whatever sys.stdout is now.
Whose(p, w) == IF p = wk[w].created THEN "own" ELSE "other"

PrintStats(w) ==
  /\ At(w, "pr_print")
  /\ wk' = [wk EXCEPT ![w].pc = "pr_restore",
                      ![w].printed = Whose(profiler, w)]
  /\ UNCHANGED << settings, globals, nextReq >>

\* Line 114.
RestoreStdout(w) ==
  /\ At(w, "pr_restore")
  /\ sys_stdout' = wk[w].old_stdout
  /\ wk' = [wk EXCEPT ![w].pc = "pr_log_header", ![w].old_stdout = 0,
                      ![w].printed = "None"]
  /\ UNCHANGED << settings, _logging_setup, _profile_log, rootFile,
                  rootConsole, infoRecords, profHandlers, profOpens,
                  profiler, nextReq >>

\* Logger.log on the "profile" logger: each handler attached to it writes
\* the record to NAME.prof once.
LinesWritten == profHandlers

\* Lines 116-118: the header record; _profile_log is None when
\* ensure_profile_logger did not create the logger.
LogHeader(w) ==
  /\ At(w, "pr_log_header")
  /\ wk' = [wk EXCEPT ![w] =
              IF _profile_log = "None"
                THEN [@ EXCEPT !.pc = "raised", !.raised = "AttributeError"]
                ELSE [@ EXCEPT !.pc = "pr_log_stats",
                               !.header = @ + LinesWritten]]
  /\ UNCHANGED << settings, globals, nextReq >>

\* Lines 119-121: the statistics record, and the return of the response.
LogStats(w) ==
  /\ At(w, "pr_log_stats")
  /\ wk' = [wk EXCEPT ![w].pc = "done",
                      ![w].stats = @ + LinesWritten,
                      ![w].returned = wk[w].response]
  /\ UNCHANGED << settings, globals, nextReq >>

\* The request is over, with the response process_response returned or with
\* the exception a hook raised.  Its locals are dropped; the profiler and
\* the StringIO made for it are from now on objects of a finished request.
Retire(x, w) == IF x = w THEN Stale ELSE x

Finish(w) ==
  /\ wk[w].pc \in {"done", "raised"}
  /\ wk' = [v \in Workers |->
              IF v = w THEN IdleWorker
              ELSE [wk[v] EXCEPT !.old_stdout = Retire(@, w)]]
  /\ profiler' = Retire(profiler, w)
  /\ sys_stdout' = Retire(sys_stdout, w)
  /\ UNCHANGED << settings, _logging_setup, _profile_log, rootFile,
                  rootConsole, infoRecords, profHandlers, profOpens,
                  nextReq >>

Next ==
  \E w \in Workers :
    \/ StartRequest(w)
    \/ EnsureLoggersCheck(w)
    \/ BasicConfig(w)
    \/ ConsoleHandler(w)
    \/ AnnounceInfo(w)
    \/ SetLoggingSetup(w)
    \/ ShortCircuit(w)
    \/ ProcessView(w)
    \/ ProcessResponseCheck(w)
    \/ CreateProfileHandler(w)
    \/ SetProfileLog(w)
    \/ AddProfileHandler(w)
    \/ SwapStdout(w)
    \/ PrintStats(w)
    \/ RestoreStdout(w)
    \/ LogHeader(w)
    \/ LogStats(w)
    \/ Finish(w)

Spec == Init /\ [][Next]_vars

----------------------------------------------------------------------------
\* Properties.

Finished(w) == wk[w].pc \in {"done", "raised"}

\* Some process_response call is in flight.
InResponse(w) ==
  wk[w].pc \in {"pr_check", "epl_handler", "epl_set", "epl_add", "pr_swap", "pr_print",
                "pr_restore", "pr_log_header", "pr_log_stats"}

\* The logging configuration is not valid: logging disabled, or the
\* directory or the name missing or empty.
BadLoggingSettings ==
  \/ settings.LOGGING_ENABLED = FALSE
  \/ settings.LOGGING_DIRECTORY \in {"None", ""}
  \/ settings.LOGGING_NAME \in {"None", ""}

\* The request of worker w asks for profiling and profiling is allowed.
Profiled(w) == wk[w].profiling = TRUE /\ settings.LOGGING_ALLOW_PROFILING = TRUE

\* C1: with valid logging configuration the initialization body of
\* ensure_loggers runs exactly once, whatever the interleaving of the
\* requests: at most one announcing record, file handler and console
\* handler, and exactly one of each run once _logging_setup is set.
C1_InitRunsOnce ==
  ~BadLoggingSettings =>
    /\ infoRecords <= 1
    /\ rootFile <= 1
    /\ rootConsole <= 1
    /\ _logging_setup => (infoRecords = 1 /\ rootFile = 1)

\* C2: with logging disabled, or the directory or the name missing or
\* empty, _logging_setup stays False, no log handler is registered and no
\* log file is opened, after any number of requests.
C2_NoSetupWithoutConfig ==
  BadLoggingSettings =>
    /\ _logging_setup = FALSE
    /\ rootFile = 0
    /\ rootConsole = 0
    /\ infoRecords = 0
    /\ profOpens = 0
    /\ profHandlers = 0

\* The configuration is not valid and every request has been served, the
\* last one just now.
C2_Witness ==
  /\ BadLoggingSettings
  /\ nextReq > MaxRequests
  /\ \E w \in Workers : wk[w].pc = "done"

\* C3: a request with the profiling parameter, profiling allowed, that ran
\* the three hooks ends with exactly one header record and exactly one
\* statistics record in NAME.prof.
C3_OneHeaderOneStats ==
  \A w \in Workers :
    (Finished(w) /\ Profiled(w) /\ wk[w].viewed) =>
      (wk[w].header = 1 /\ wk[w].stats = 1)

\* C4: no hook ends in an error because of missing or incomplete
\* configuration, and process_response returns the response: a request the
\* view was dispatched for never ends with an exception, whatever the
\* settings.
C4_ConfigNeverRaises ==
  \A w \in Workers :
    wk[w].viewed =>
      /\ wk[w].raised = "None"
      /\ wk[w].pc # "raised"
      /\ wk[w].pc = "done" => wk[w].returned = wk[w].response

\* C5: the profiler process_response finalizes and prints for a request is
\* the profiler process_view created for that request.
C5_OwnProfiler ==
  \A w \in Workers : wk[w].viewed => wk[w].printed # "other"

\* C6: the profiling sink is created at most once: at most one FileHandler
\* is constructed on NAME.prof and attached to the "profile" logger.
C6_ProfileSinkOnce == profOpens <= 1 /\ profHandlers <= 1

\* C7: with LOGGING_ALLOW_PROFILING false, no request, with or without the
\* profiling parameter, gets a profiler; process_view returns None and does
\* not call the view itself; nothing is written to the profiling sink, which
\* is never created; process_response returns the response it was given.
C7_NoProfilingWhenNotAllowed ==
  settings.LOGGING_ALLOW_PROFILING = FALSE =>
    /\ profiler = 0
    /\ _profile_log = "None"
    /\ profOpens = 0
    /\ profHandlers = 0
    /\ \A w \in Workers :
         /\ wk[w].created = 0
         /\ wk[w].viewCalls = 0
         /\ wk[w].pvReturn = "None"
         /\ wk[w].header = 0
         /\ wk[w].stats = 0
         /\ wk[w].pc # "raised"
         /\ wk[w].pc = "done" => wk[w].returned = wk[w].response
         /\ (wk[w].pc = "done" /\ wk[w].viewed) => wk[w].returned = "page"

\* Profiling is not allowed, and a request that carried the profiling
\* parameter and reached the view has been answered.
C7_Witness ==
  /\ settings.LOGGING_ALLOW_PROFILING = FALSE
  /\ \E w \in Workers :
       wk[w].pc = "done" /\ wk[w].profiling /\ wk[w].viewed

\* C8: when profiling is active for a request, process_view calls the view
\* exactly once, with (request, *callback_args, **callback_kwargs), and
\* returns what the view answers to that call.
C8_RunCallTransparent ==
  \A w \in Workers :
    (wk[w].pc = "pr_check" /\ wk[w].viewed /\ Profiled(w)) =>
      /\ wk[w].viewCalls = 1
      /\ wk[w].calledWith = [args   |-> <<"request">> \o wk[w].cb.args,
                             kwargs |-> wk[w].cb.kwargs]
      /\ wk[w].pvReturn = "page"
      /\ wk[w].response = wk[w].pvReturn

\* process_view has just returned for a profiled request whose view takes
\* arguments from the URL.
C8_Witness ==
  \E w \in Workers :
    /\ wk[w].pc = "pr_check"
    /\ wk[w].viewed
    /\ Profiled(w)
    /\ wk[w].cb.args = <<"pk">>

\* C9: when process_view did not run for a request, process_response is
\* inactive for it even with the profiling parameter and profiling allowed:
\* it prints no statistics, writes no record, raises nothing and returns
\* the response.
C9_InactiveWithoutView ==
  \A w \in Workers :
    ~wk[w].viewed =>
      /\ wk[w].pc # "raised"
      /\ wk[w].printed = "None"
      /\ wk[w].header = 0
      /\ wk[w].stats = 0
      /\ wk[w].pc = "done" => wk[w].returned = wk[w].response

\* C10: once no process_response call is in flight, sys.stdout is the real
\* stream again (stated for valid logging settings, where process_response
\* runs to its end).
C10_StdoutRestored ==
  (~BadLoggingSettings /\ \A w \in Workers : ~InResponse(w)) => sys_stdout = 0

====
